---- MODULE Spec2Model ----
(***************************************************************************)
(* The refugee population dashboard of src/app_code.py, one Streamlit      *)
(* script run top to bottom on every user interaction.  A run loads a     *)
(* table, preprocesses a copy of it, narrows it by the sidebar widgets    *)
(* and renders key figures, four tabs, the key insights and the exports.  *)
(*                                                                         *)
(* Python names are bound to objects: df, df_processed and df_filtered    *)
(* hold references into `heap`, so that two names bound to the same       *)
(* DataFrame see each other's column assignments.                          *)
(*                                                                         *)
(* A DataFrame is [cols, datetime, rows]: the set of its column names,    *)
(* the columns of datetime dtype, and its rows in index order.  A row is  *)
(* a function from the names of the columns the script reads to cells.    *)
(* The columns min_age, max_age, origin_in_gho and asylum_in_gho are      *)
(* never read after preprocessing; they appear in cols only.              *)
(* Dates are the integers yyyymmdd.                                        *)
(***************************************************************************)
EXTENDS Integers, Sequences, FiniteSets, TLC

\* ---------------------------------------------------------------- bounds

\* Rows of an uploaded table.
MaxRows == 2

\* Sidebar multiselects the user sets to something other than their default
\* or the empty selection in one run.
MaxCustom == 1

\* ------------------------------------------------------------ cell values

\* A missing number (numpy.nan), as pd.read_csv and errors='coerce' give it.
NaN == -1

\* A missing date (pandas.NaT), as pd.to_datetime gives it for a missing cell.
NaT == 0

\* A missing cell of a text column.
NA == ""

AllColumns ==
    {"origin_location_code", "origin_has_hrp", "origin_in_gho",
     "asylum_location_code", "asylum_has_hrp", "asylum_in_gho",
     "population_group", "gender", "age_range", "min_age", "max_age",
     "population", "reference_period_start", "reference_period_end"}

\* The columns whose cells the script reads.
ReadColumns ==
    {"origin_location_code", "origin_has_hrp", "asylum_location_code",
     "asylum_has_hrp", "population_group", "gender", "age_range",
     "population", "reference_period_start", "reference_period_end"}

NoFrame == [cols |-> {}, datetime |-> {}, rows |-> <<>>]

\* Python's order of the strings the model uses (digits before upper case
\* before lower case), for sorted() and for the sorted keys of groupby.
StrOrder ==
    <<"", "0-4", "12-17", "18-59", "40-44", "5-11", "60+",
      "A", "AFG", "B", "ETH", "False", "Female", "IRN", "JOR", "KEN", "LBN",
      "LKA", "Male", "PAK", "REF", "RET", "SOM", "SYR", "TUR", "True", "all",
      "f", "m">>

Rank(s) == CHOOSE i \in 1..Len(StrOrder) : StrOrder[i] = s

\* sorted(S) for a set of strings.
RECURSIVE Sorted(_)
Sorted(S) ==
    IF S = {} THEN <<>>
    ELSE LET least == CHOOSE x \in S : \A y \in S : Rank(x) <= Rank(y)
         IN  <<least>> \o Sorted(S \ {least})

Range(s) == {s[i] : i \in 1..Len(s)}

Min(S) == CHOOSE x \in S : \A y \in S : x <= y

Max(S) == CHOOSE x \in S : \A y \in S : x >= y

\* The values of a column, as a set.
Values(f, c) == {f.rows[i][c] : i \in 1..Len(f.rows)}

\* ------------------------------------------------------------- the source

Row(o, oh, a, ah, g, s, ar, p, st, en) ==
    [origin_location_code |-> o, origin_has_hrp |-> oh,
     asylum_location_code |-> a, asylum_has_hrp |-> ah,
     population_group |-> g, gender |-> s, age_range |-> ar,
     population |-> p, reference_period_start |-> st,
     reference_period_end |-> en]

\* load_sample_data(): the eight sample rows.
SampleData ==
    [cols |-> AllColumns, datetime |-> {},
     rows |-> <<
       Row("AFG", "True",  "LKA", "False", "RET", "f", "0-4",   10,  "1/1/2022", "12/31/2022"),
       Row("AFG", "True",  "PAK", "True",  "REF", "m", "5-11",  50,  "1/1/2022", "12/31/2022"),
       Row("AFG", "True",  "IRN", "False", "REF", "f", "12-17", 35,  "1/1/2022", "12/31/2022"),
       Row("SYR", "True",  "TUR", "False", "REF", "m", "18-59", 100, "1/1/2022", "12/31/2022"),
       Row("SYR", "True",  "LBN", "True",  "REF", "f", "60+",   40,  "1/1/2022", "12/31/2022"),
       Row("SYR", "True",  "JOR", "True",  "REF", "m", "all",   500, "1/1/2022", "12/31/2022"),
       Row("SOM", "False", "KEN", "True",  "REF", "f", "0-4",   25,  "1/1/2022", "12/31/2022"),
       Row("SOM", "False", "ETH", "True",  "REF", "m", "18-59", 75,  "1/1/2022", "12/31/2022") >>]

\* The text of a population cell of a CSV file, as pd.read_csv reads it:
\* "N/A" and the empty cell are among its default missing-value markers.
ReadNumber(text) ==
    CASE text = "0"  -> 0
      [] text = "5"  -> 5
      [] text = "10" -> 10
      [] text = "20" -> 20
      [] OTHER       -> NaN

\* Drop a column of a row.
Without(r, missing) == [c \in DOMAIN r \ missing |-> r[c]]

\* pd.read_csv(uploaded_file): the rows of the file, the population column
\* parsed as numbers, the text columns as they are.
ReadCsv(file) ==
    [cols |-> file.cols, datetime |-> {},
     rows |-> [i \in 1..Len(file.rows) |->
                 IF "population" \in DOMAIN file.rows[i]
                 THEN [file.rows[i] EXCEPT !["population"] = ReadNumber(@)]
                 ELSE file.rows[i]]]

\* ------------------------------------------------------------------ dates

DateTexts == {"1/1/2022", "12/31/2022", "1/1/2023"}

\* pd.to_datetime of one cell that parses.
ToDatetime(text) ==
    CASE text = "1/1/2022"   -> 20220101
      [] text = "12/31/2022" -> 20221231
      [] text = "1/1/2023"   -> 20230101
      [] OTHER               -> NaT

\* pd.to_datetime raises for a cell that is neither missing nor a date.
Parses(text) == text \in DateTexts \cup {NA}

\* The days a date_input can return.
Days == {ToDatetime(t) : t \in DateTexts}

Year(d) == IF d = NaT THEN NaN ELSE d \div 10000

Month(d) == IF d = NaT THEN NaN ELSE (d \div 100) % 100

\* ------------------------------------------------------------------ state

VARIABLES
    source,             \* the radio choice and the uploaded file: the user's input
    heap,               \* the DataFrame objects of the session
    df,                 \* the object the name df is bound to
    df_processed,       \* the object the name df_processed is bound to
    df_filtered,        \* the object the name df_filtered is bound to
    date_range,         \* what st.sidebar.date_input returned
    origin_countries,   \* what the five multiselects returned
    asylum_countries,
    population_groups,
    genders,
    age_ranges,
    pc,                 \* the script's position
    outcome,            \* how the run ended, "" while it runs
    error,              \* what the error shown to the user names
    warnings,           \* the st.warning / st.sidebar.warning texts shown
    kpi,                \* the key metrics rendered
    charts,             \* the aggregations rendered by the tabs
    insights,           \* what Key Insights computed
    export,             \* what the export buttons produced
    reran               \* history: the session has run the script before

vars ==
    <<source, heap, df, df_processed, df_filtered, date_range,
      origin_countries, asylum_countries, population_groups, genders,
      age_ranges, pc, outcome, error, warnings, kpi, charts, insights, export,
      reran>>

\* The names of the objects: the value st.cache_data keeps for
\* load_sample_data, and what df, df.copy(), a row selection and the slice
\* df_age make.
Objects == {"cache", "df", "proc", "filt", "age"}

Unbound == "unbound"

NoKpi == [shown |-> FALSE, total |-> 0, origins |-> 0, asylums |-> 0, groups |-> 0]

NoRatio == [computed |-> FALSE, numerator |-> 0, denominator |-> 0]

NoAges ==
    [computed |-> FALSE,
     children_ranges |-> {}, working_age_ranges |-> {}, elderly_ranges |-> {},
     children_population |-> 0, working_age_population |-> 0,
     elderly_population |-> 0]

NoInsights ==
    [shown |-> FALSE, total_population |-> 0, percent_of |-> {},
     ratio |-> NoRatio, ages |-> NoAges]

NoExport == [clicked |-> "none", csv |-> NoFrame, summary |-> <<>>]

ConvertWarning == "Could not convert date columns to datetime format"

DateWarning == "Could not apply date filtering"

EmptyWarning == "No data available with the selected filters. Please adjust your filters."

\* The state of a script run before its first statement, the session's
\* objects in h.
FreshRun(h) ==
    /\ heap = h
    /\ df = Unbound
    /\ df_processed = Unbound
    /\ df_filtered = Unbound
    /\ date_range = <<>>
    /\ origin_countries = {}
    /\ asylum_countries = {}
    /\ population_groups = {}
    /\ genders = {}
    /\ age_ranges = {}
    /\ pc = "load"
    /\ outcome = ""
    /\ error = ""
    /\ warnings = {}
    /\ kpi = NoKpi
    /\ charts = <<>>
    /\ insights = NoInsights
    /\ export = NoExport
    /\ reran = FALSE

\* The tables of at most MaxRows rows of `pool`, the columns `missing` absent.
RECURSIVE Seqs(_, _)
Seqs(S, n) ==
    IF n = 0 THEN {<<>>}
    ELSE Seqs(S, n - 1) \cup
         {Append(s, x) : s \in {t \in Seqs(S, n - 1) : Len(t) = n - 1}, x \in S}

Files(pool, missings) ==
    {[status |-> "ok", cols |-> AllColumns \ m,
      rows |-> [i \in 1..Len(rs) |-> Without(rs[i], m)]] :
        rs \in Seqs(pool, MaxRows), m \in missings}

NoFile == [status |-> "none", cols |-> {}, rows |-> <<>>]

\* A file pd.read_csv cannot read.
BadFile == [status |-> "unreadable", cols |-> {}, rows |-> <<>>]

Sources(pool, missings) ==
    {[upload_option |-> "Use sample data", uploaded_file |-> NoFile]} \cup
    {[upload_option |-> "Upload CSV file", uploaded_file |-> f] :
        f \in {NoFile, BadFile} \cup Files(pool, missings)}

\* ------------------------------------------------------------------- load

\* A copy of the object src as the object dst: df.copy(), and the copy
\* st.cache_data hands out of the value it keeps.
CopyAlias(h, src, dst) == [ref |-> src, heap |-> h]

Copy(h, src, dst) == [ref |-> dst, heap |-> [h EXCEPT ![dst] = h[src]]]

\* load_sample_data() under @st.cache_data: the body runs on the first call
\* of the session, every call returns a copy of the value kept.
LoadSampleData(h) ==
    LET kept == IF h["cache"] = NoFrame
                THEN [h EXCEPT !["cache"] = SampleData]
                ELSE h
    IN  Copy(kept, "cache", "df")

Load ==
    /\ pc = "load"
    /\ IF source.upload_option = "Upload CSV file"
       THEN IF source.uploaded_file.status = "none"
            THEN /\ pc' = "stopped"
                 /\ outcome' = "upload_needed"
                 /\ UNCHANGED <<heap, df, error>>
            ELSE IF source.uploaded_file.status = "unreadable"
            THEN /\ pc' = "stopped"
                 /\ outcome' = "load_error"
                 /\ error' = "Error loading file"
                 /\ UNCHANGED <<heap, df>>
            ELSE /\ heap' = [heap EXCEPT !["df"] = ReadCsv(source.uploaded_file)]
                 /\ df' = "df"
                 /\ pc' = "preprocess"
                 /\ UNCHANGED <<outcome, error>>
       ELSE LET r == LoadSampleData(heap)
            IN  /\ heap' = r.heap
                /\ df' = r.ref
                /\ pc' = "preprocess"
                /\ UNCHANGED <<outcome, error>>
    /\ UNCHANGED <<source, reran, df_processed, df_filtered, date_range,
                   origin_countries, asylum_countries, population_groups,
                   genders, age_ranges, warnings, kpi, charts, insights, export>>

\* ------------------------------------------------------------- preprocess

\* pd.to_datetime(column) succeeds: the column is there and every cell
\* parses (a column already of datetime dtype is returned as it is).
CanConvert(f, c) ==
    /\ c \in f.cols
    /\ c \in f.datetime \/ \A i \in 1..Len(f.rows) : Parses(f.rows[i][c])

Converted(f, c) ==
    IF c \in f.datetime THEN f
    ELSE [f EXCEPT !.datetime = @ \cup {c},
                   !.rows = [i \in 1..Len(f.rows) |->
                               [f.rows[i] EXCEPT ![c] = ToDatetime(@)]]]

\* The try block of the date conversion: the start column, then the end
\* column; the first failure leaves the rest as it is and warns.
ConvertDates(f) ==
    IF ~CanConvert(f, "reference_period_start")
    THEN [frame |-> f, warned |-> TRUE]
    ELSE LET g == Converted(f, "reference_period_start")
         IN  IF ~CanConvert(g, "reference_period_end")
             THEN [frame |-> g, warned |-> TRUE]
             ELSE [frame |-> Converted(g, "reference_period_end"), warned |-> FALSE]

\* The first of the columns cs, in the script's order, that f lacks; "" if none.
FirstMissing(f, cs) ==
    IF \A i \in 1..Len(cs) : cs[i] \in f.cols THEN ""
    ELSE cs[Min({i \in 1..Len(cs) : cs[i] \notin f.cols})]

Preprocess ==
    /\ pc = "preprocess"
    /\ LET c    == Copy(heap, df, "proc")
           conv == ConvertDates(c.heap[c.ref])
           lost == FirstMissing(conv.frame, <<"min_age", "max_age">>)
       IN  /\ df_processed' = c.ref
           /\ heap' = [c.heap EXCEPT ![c.ref] = conv.frame]
           /\ warnings' = IF conv.warned THEN warnings \cup {ConvertWarning}
                          ELSE warnings
           /\ IF lost = ""
              THEN pc' = "date" /\ UNCHANGED <<outcome, error>>
              ELSE pc' = "stopped" /\ outcome' = "exception" /\ error' = lost
    /\ UNCHANGED <<source, reran, df, df_filtered, date_range, origin_countries,
                   asylum_countries, population_groups, genders, age_ranges,
                   kpi, charts, insights, export>>

\* ------------------------------------------------------------ date filter

\* rows[mask]: the rows whose entry of the boolean mask is True, in order.
RECURSIVE Take(_, _)
Take(rows, mask) ==
    IF rows = <<>> THEN <<>>
    ELSE (IF Head(mask) THEN <<Head(rows)>> ELSE <<>>) \o Take(Tail(rows), Tail(mask))

\* df_filtered = frame[mask]: a selection of rows by a boolean mask is a new
\* DataFrame, bound to df_filtered in place of the object it was bound to.
Selected(b, mask) ==
    [ref  |-> "filt",
     heap |-> [b.heap EXCEPT !["filt"] =
                 [b.heap[b.ref] EXCEPT !.rows = Take(@, mask)]]]

\* column.min().date() / column.max().date() raise: the column is absent,
\* is not of datetime dtype (min() is then a str or a float), or has no date
\* at all (min() is NaT); or date_input refuses a default value outside
\* min_value..max_value.
HasDates(f, c) ==
    /\ c \in f.cols
    /\ c \in f.datetime
    /\ Values(f, c) \ {NaT} # {}

MinDate(f) == Min(Values(f, "reference_period_start") \ {NaT})

MaxDate(f) == Max(Values(f, "reference_period_end") \ {NaT})

DatesFail(f) ==
    \/ ~HasDates(f, "reference_period_start")
    \/ ~HasDates(f, "reference_period_end")
    \/ MinDate(f) > MaxDate(f)

\* What date_input can return with value=(min_date, max_date): a start and
\* an end day within the bounds, or the start day alone while the user is
\* still picking the end.
DateRanges(lo, hi) ==
    {<<s, e>> : s \in {d \in Days : lo <= d /\ d <= hi},
                e \in {d \in Days : lo <= d /\ d <= hi}} \cup
    {<<s>> : s \in {d \in Days : lo <= d /\ d <= hi}}

\* The comparison of a date column with a day: False for a missing date.
InRangeExclusive(r, start_date, end_date) ==
    /\ r["reference_period_start"] # NaT
    /\ r["reference_period_end"] # NaT
    /\ r["reference_period_start"] > start_date
    /\ r["reference_period_end"] < end_date

InRange(r, start_date, end_date) ==
    /\ r["reference_period_start"] # NaT
    /\ r["reference_period_end"] # NaT
    /\ r["reference_period_start"] >= start_date
    /\ r["reference_period_end"] <= end_date

DateMask(f, start_date, end_date) ==
    [i \in 1..Len(f.rows) |-> InRange(f.rows[i], start_date, end_date)]

\* A start day alone taken as a constraint on the start of the period.
FilterByStart(b, f, dr) ==
    IF Len(dr) = 2 THEN Selected(b, DateMask(f, dr[1], dr[2]))
    ELSE IF Len(dr) = 1
         THEN Selected(b, [i \in 1..Len(f.rows) |->
                             /\ f.rows[i]["reference_period_start"] # NaT
                             /\ f.rows[i]["reference_period_start"] >= dr[1]])
         ELSE b

\* if len(date_range) == 2: df_filtered = df_processed[mask]
\* else: df_filtered = df_processed
FilterByDates(b, f, dr) ==
    IF Len(dr) = 2 THEN Selected(b, DateMask(f, dr[1], dr[2])) ELSE b

DateFilter ==
    /\ pc = "date"
    /\ LET f == heap[df_processed]
       IN  IF DatesFail(f)
           THEN /\ warnings' = warnings \cup {DateWarning}
                /\ df_filtered' = df_processed
                /\ UNCHANGED <<heap, date_range>>
           ELSE \E dr \in {d \in DateRanges(MinDate(f), MaxDate(f)) :
                              Len(d) = 2 => d[1] <= d[2]} :
                  LET b == FilterByDates([ref |-> df_processed, heap |-> heap], f, dr)
                  IN  /\ date_range' = dr
                      /\ df_filtered' = b.ref
                      /\ heap' = b.heap
                      /\ UNCHANGED warnings
    /\ pc' = "widgets"
    /\ UNCHANGED <<source, reran, df, df_processed, origin_countries, asylum_countries,
                   population_groups, genders, age_ranges, outcome, error,
                   kpi, charts, insights, export>>

\* ---------------------------------------------------------------- widgets

Dimensions ==
    <<"origin_location_code", "asylum_location_code", "population_group",
      "gender", "age_range">>

\* sorted(df_filtered[c].unique()) raises: KeyError when the column is
\* absent, TypeError when a missing value stands among strings.
OptionsError(f, c) ==
    IF c \notin f.cols THEN c
    ELSE IF NA \in Values(f, c) /\ Values(f, c) # {NA} THEN "TypeError"
    ELSE ""

FirstOptionsError(f) ==
    IF \A i \in 1..Len(Dimensions) : OptionsError(f, Dimensions[i]) = "" THEN ""
    ELSE OptionsError(f, Dimensions[Min({i \in 1..Len(Dimensions) :
                                          OptionsError(f, Dimensions[i]) # ""})])

\* Every option as the default of every multiselect.
DefaultAll(f, c) == Values(f, c)

\* The default of a multiselect: every option, but only the first three in
\* sorted order for the two country filters with more than three options.
Default(f, c) ==
    LET options == Sorted(Values(f, c))
    IN  IF c \in {"origin_location_code", "asylum_location_code"} /\ Len(options) > 3
        THEN Range(SubSeq(options, 1, 3))
        ELSE Range(options)

\* What the user makes of a multiselect: leaves the default, clears it, or
\* picks one option or all of them.
Custom(f, c) ==
    ({{o} : o \in Values(f, c)} \cup {Values(f, c)}) \ {{}, Default(f, c)}

Choices(f, c) == {{}, Default(f, c)} \cup Custom(f, c)

Widgets ==
    /\ pc = "widgets"
    /\ LET f == heap[df_filtered]
       IN  IF FirstOptionsError(f) # ""
           THEN /\ pc' = "stopped"
                /\ outcome' = "exception"
                /\ error' = FirstOptionsError(f)
                /\ UNCHANGED <<origin_countries, asylum_countries,
                               population_groups, genders, age_ranges>>
           ELSE \E o \in Choices(f, "origin_location_code"),
                   a \in Choices(f, "asylum_location_code"),
                   g \in Choices(f, "population_group"),
                   s \in Choices(f, "gender"),
                   r \in Choices(f, "age_range") :
                  /\ Cardinality(
                       {i \in 1..Len(Dimensions) :
                          <<o, a, g, s, r>>[i] \in Custom(f, Dimensions[i])}) <= MaxCustom
                  /\ origin_countries' = o
                  /\ asylum_countries' = a
                  /\ population_groups' = g
                  /\ genders' = s
                  /\ age_ranges' = r
                  /\ pc' = "filter"
                  /\ UNCHANGED <<outcome, error>>
    /\ UNCHANGED <<source, reran, heap, df, df_processed, df_filtered, date_range,
                   warnings, kpi, charts, insights, export>>

\* ---------------------------------------------------------- apply filters

\* df_filtered[df_filtered[c].isin(selection)]
IsIn(b, c, selection) ==
    Selected(b, [i \in 1..Len(b.heap[b.ref].rows) |->
                   b.heap[b.ref].rows[i][c] \in selection])

NarrowAlways(b, c, selection) == IsIn(b, c, selection)

\* if selection: df_filtered = df_filtered[...isin(selection)]
Narrow(b, c, selection) == IF selection # {} THEN IsIn(b, c, selection) ELSE b

Narrowed(b, o, a, g, s, r) ==
    Narrow(Narrow(Narrow(Narrow(Narrow(b,
        "origin_location_code", o),
        "asylum_location_code", a),
        "population_group", g),
        "gender", s),
        "age_range", r)

ApplyFilters ==
    /\ pc = "filter"
    /\ LET b == Narrowed([ref |-> df_filtered, heap |-> heap], origin_countries,
                         asylum_countries, population_groups, genders, age_ranges)
       IN  df_filtered' = b.ref /\ heap' = b.heap
    /\ pc' = "check"
    /\ UNCHANGED <<source, reran, df, df_processed, date_range, origin_countries,
                   asylum_countries, population_groups, genders, age_ranges,
                   outcome, error, warnings, kpi, charts, insights, export>>

EmptyNever(f) == FALSE

\* frame.empty: no rows or no columns.
Empty(f) == Len(f.rows) = 0 \/ f.cols = {}

\* if df_filtered.empty: warn and stop
EmptyCheck ==
    /\ pc = "check"
    /\ IF Empty(heap[df_filtered])
       THEN /\ warnings' = warnings \cup {EmptyWarning}
            /\ outcome' = "empty"
            /\ pc' = "stopped"
       ELSE /\ pc' = "metrics"
            /\ UNCHANGED <<warnings, outcome>>
    /\ UNCHANGED <<source, reran, heap, df, df_processed, df_filtered, date_range,
                   origin_countries, asylum_countries, population_groups,
                   genders, age_ranges, error, kpi, charts, insights, export>>

\* ------------------------------------------------------------ aggregation

\* The number of rows in place of the sum of their population.
CountRows(rows) == Len(rows)

\* rows['population'].sum(): missing values are skipped.
RECURSIVE SumPopulation(_)
SumPopulation(rows) ==
    IF rows = <<>> THEN 0
    ELSE (IF Head(rows)["population"] = NaN THEN 0 ELSE Head(rows)["population"])
         + SumPopulation(Tail(rows))

\* The group key of a row: its cells in the grouping columns.
RowKey(r, by) == [j \in 1..Len(by) |-> r[by[j]]]

\* groupby drops the rows with a missing cell in a grouping column (dropna=True).
GroupKeysAll(f, by) == {RowKey(f.rows[i], by) : i \in 1..Len(f.rows)}

GroupKeys(f, by) ==
    {k \in GroupKeysAll(f, by) : \A j \in 1..Len(by) : k[j] # NA}

KeyRank(k) ==
    IF Len(k) = 1 THEN Rank(k[1]) ELSE Rank(k[1]) * (Len(StrOrder) + 1) + Rank(k[2])

\* The group keys in sorted order (sort=True).
RECURSIVE SortedKeys(_)
SortedKeys(K) ==
    IF K = {} THEN <<>>
    ELSE LET least == CHOOSE x \in K : \A y \in K : KeyRank(x) <= KeyRank(y)
         IN  <<least>> \o SortedKeys(K \ {least})

\* frame.groupby(by)['population'].sum().reset_index()
GroupBy(f, by) ==
    LET keys == SortedKeys(GroupKeys(f, by))
    IN  [n \in 1..Len(keys) |->
           [key |-> keys[n],
            population |-> SumPopulation(
                Take(f.rows, [i \in 1..Len(f.rows) |->
                                RowKey(f.rows[i], by) = keys[n]]))]]

\* The lists a group can join in non-increasing order of population: among
\* groups of equal population it can take any place.
Insertions(sorted, g) ==
    {SubSeq(sorted, 1, p) \o <<g>> \o SubSeq(sorted, p + 1, Len(sorted)) :
        p \in {q \in 0..Len(sorted) :
                  /\ \A i \in 1..q : sorted[i].population >= g.population
                  /\ \A i \in (q + 1)..Len(sorted) :
                        sorted[i].population <= g.population}}

\* result.sort_values('population', ascending=False): the default kind is
\* 'quicksort', which numpy does not make stable, so the order of the groups
\* of equal population is whatever the build's argsort gives. The set of the
\* lists it can return.
RECURSIVE SortValuesDescending(_)
SortValuesDescending(groups) ==
    IF groups = <<>> THEN {<<>>}
    ELSE UNION {Insertions(s, groups[Len(groups)]) :
                  s \in SortValuesDescending(SubSeq(groups, 1, Len(groups) - 1))}

\* result.head(n)
TopHead(groups, n) == SubSeq(groups, 1, IF Len(groups) < n THEN Len(groups) ELSE n)

\* column.isna().all()
AllMissing(f, c) == Values(f, c) \subseteq {NA}

\* ------------------------------------------------------------ key metrics

KeyMetrics ==
    /\ pc = "metrics"
    /\ LET f == heap[df_filtered]
       IN  IF "population" \notin f.cols
           THEN /\ pc' = "stopped"
                /\ outcome' = "exception"
                /\ error' = "population"
                /\ UNCHANGED kpi
           ELSE /\ kpi' = [shown   |-> TRUE,
                           total   |-> SumPopulation(f.rows),
                           origins |-> Cardinality(Values(f, "origin_location_code")),
                           asylums |-> Cardinality(Values(f, "asylum_location_code")),
                           groups  |-> Cardinality(Values(f, "population_group"))]
                /\ pc' = "tab1"
                /\ UNCHANGED <<outcome, error>>
    /\ UNCHANGED <<source, reran, heap, df, df_processed, df_filtered, date_range,
                   origin_countries, asylum_countries, population_groups,
                   genders, age_ranges, warnings, charts, insights, export>>

\* ------------------------------------------------------------------- tabs

\* Population Overview
Tab1 ==
    /\ pc = "tab1"
    /\ LET f == heap[df_filtered]
       IN  charts' = [pop_by_group |-> GroupBy(f, <<"population_group">>),
                      pop_by_gender |->
                          IF ~AllMissing(f, "gender")
                          THEN GroupBy(f, <<"gender">>) ELSE <<>>]
    /\ pc' = "tab2"
    /\ UNCHANGED <<source, reran, heap, df, df_processed, df_filtered, date_range,
                   origin_countries, asylum_countries, population_groups,
                   genders, age_ranges, outcome, error, warnings, kpi,
                   insights, export>>

\* Demographics: df_age is a selection of rows, a DataFrame of its own; the
\* ordered categorical is assigned to a column of df_age.
Tab2 ==
    /\ pc = "tab2"
    /\ LET f == heap[df_filtered]
       IN  IF ~AllMissing(f, "age_range")
           THEN heap' = [heap EXCEPT !["age"] =
                           [f EXCEPT !.rows =
                               Take(@, [i \in 1..Len(f.rows) |->
                                          f.rows[i]["age_range"] # "all"])]]
           ELSE UNCHANGED heap
    /\ pc' = "tab3"
    /\ UNCHANGED <<source, reran, df, df_processed, df_filtered, date_range,
                   origin_countries, asylum_countries, population_groups,
                   genders, age_ranges, outcome, error, warnings, kpi, charts,
                   insights, export>>

\* Geographic Analysis
Tab3 ==
    /\ pc = "tab3"
    /\ LET f == heap[df_filtered]
           hrp == {"origin_has_hrp", "asylum_has_hrp"} \subseteq f.cols
       IN  \E origin_counts \in
                  SortValuesDescending(GroupBy(f, <<"origin_location_code">>)),
              asylum_counts \in
                  SortValuesDescending(GroupBy(f, <<"asylum_location_code">>)),
              migration_flows \in
                  SortValuesDescending(
                      GroupBy(f, <<"origin_location_code", "asylum_location_code">>)) :
             charts' =
               [origin_counts   |-> TopHead(origin_counts, 10),
                asylum_counts   |-> TopHead(asylum_counts, 10),
                migration_flows |-> TopHead(migration_flows, 15),
                origin_hrp |-> IF hrp THEN GroupBy(f, <<"origin_has_hrp">>) ELSE <<>>,
                asylum_hrp |-> IF hrp THEN GroupBy(f, <<"asylum_has_hrp">>) ELSE <<>>]
               @@ charts
    /\ pc' = "tab4"
    /\ UNCHANGED <<source, reran, heap, df, df_processed, df_filtered, date_range,
                   origin_countries, asylum_countries, population_groups,
                   genders, age_ranges, outcome, error, warnings, kpi,
                   insights, export>>

\* df_filtered['year'] = ...dt.year; df_filtered['month'] = ...dt.month:
\* two columns assigned to the object df_filtered is bound to.
WithYearMonth(f) ==
    [f EXCEPT !.cols = @ \cup {"year", "month"},
              !.rows = [i \in 1..Len(f.rows) |->
                          [year  |-> Year(f.rows[i]["reference_period_start"]),
                           month |-> Month(f.rows[i]["reference_period_start"])]
                          @@ f.rows[i]]]

\* Trends
Tab4 ==
    /\ pc = "tab4"
    /\ LET f == heap[df_filtered]
       IN  IF "reference_period_start" \in f.cols
              /\ "reference_period_start" \in f.datetime
           THEN /\ heap' = [heap EXCEPT ![df_filtered] = WithYearMonth(f)]
                /\ charts' = [years |-> Values(WithYearMonth(f), "year")] @@ charts
           ELSE UNCHANGED <<heap, charts>>
    /\ pc' = "insights"
    /\ UNCHANGED <<source, reran, df, df_processed, df_filtered, date_range,
                   origin_countries, asylum_countries, population_groups,
                   genders, age_ranges, outcome, error, warnings, kpi,
                   insights, export>>

\* --------------------------------------------------------------- insights

\* part in range_name, for two strings.
Contains(range_name, part) ==
    \E i \in 1..(Len(range_name) - Len(part) + 1) :
        SubSeq(range_name, i, i + Len(part) - 1) = part

\* key in counts, for the result of a groupby on one column.
HasGroup(counts, key) == \E n \in 1..Len(counts) : counts[n].key = <<key>>

\* counts[key]
GroupSum(counts, key) ==
    counts[CHOOSE n \in 1..Len(counts) : counts[n].key = <<key>>].population

\* The gender ratio of Key Insights. male_percentage and female_percentage
\* are the sums of the two genders over the positive total_population times
\* 100: they compare as the sums do and are zero where the sums are, and the
\* sums stand for them here.
GenderRatio(f) ==
    LET gender_counts == GroupBy(f, <<"gender">>)
    IN  IF ~AllMissing(f, "gender")
           /\ HasGroup(gender_counts, "m") /\ HasGroup(gender_counts, "f")
        THEN LET male   == GroupSum(gender_counts, "m")
                 female == GroupSum(gender_counts, "f")
             IN  IF male > female
                 THEN [computed |-> TRUE, numerator |-> male, denominator |-> female]
                 ELSE IF female > male
                      THEN [computed |-> TRUE, numerator |-> female, denominator |-> male]
                      ELSE NoRatio
        ELSE NoRatio

\* [range_name for range_name in age_dist.index
\*   if any(r in range_name for r in parts)]
BucketRanges(age_dist, parts) ==
    {age_dist[n].key[1] : n \in {m \in 1..Len(age_dist) :
        \E r \in parts : Contains(age_dist[m].key[1], r)}}

\* sum(age_dist[range_name] for range_name in ranges)
RECURSIVE BucketPopulation(_, _)
BucketPopulation(age_dist, ranges) ==
    IF age_dist = <<>> THEN 0
    ELSE (IF Head(age_dist).key[1] \in ranges THEN Head(age_dist).population ELSE 0)
         + BucketPopulation(Tail(age_dist), ranges)

\* The age distribution insights.
AgeBuckets(f) ==
    LET df_age_insight ==
            [f EXCEPT !.rows = Take(@, [i \in 1..Len(f.rows) |->
                                          f.rows[i]["age_range"] # "all"])]
        age_dist == GroupBy(df_age_insight, <<"age_range">>)
        children == BucketRanges(age_dist, {"0-4", "5-11", "12-17"})
        working  == BucketRanges(age_dist, {"18-59"})
        elderly  == BucketRanges(age_dist, {"60+"})
    IN  IF ~AllMissing(f, "age_range") /\ ~Empty(df_age_insight)
        THEN [computed |-> TRUE,
              children_ranges |-> children,
              working_age_ranges |-> working,
              elderly_ranges |-> elderly,
              children_population |-> BucketPopulation(age_dist, children),
              working_age_population |-> BucketPopulation(age_dist, working),
              elderly_population |-> BucketPopulation(age_dist, elderly)]
        ELSE NoAges

\* Key Insights: nothing is computed unless total_population > 0; .index[0]
\* of a groupby that kept no group raises IndexError.
KeyInsights ==
    /\ pc = "insights"
    /\ LET f == heap[df_filtered]
           total_population == SumPopulation(f.rows)
       IN  IF total_population > 0
           THEN IF \E c \in {"population_group", "origin_location_code",
                             "asylum_location_code"} : GroupBy(f, <<c>>) = <<>>
                THEN /\ pc' = "stopped"
                     /\ outcome' = "exception"
                     /\ error' = "IndexError"
                     /\ UNCHANGED insights
                ELSE /\ insights' = [shown |-> TRUE,
                                     total_population |-> total_population,
                                     percent_of |-> {total_population},
                                     ratio |-> GenderRatio(f),
                                     ages |-> AgeBuckets(f)]
                     /\ pc' = "export"
                     /\ UNCHANGED <<outcome, error>>
           ELSE /\ insights' = [NoInsights EXCEPT
                                   !.total_population = total_population]
                /\ pc' = "export"
                /\ UNCHANGED <<outcome, error>>
    /\ UNCHANGED <<source, reran, heap, df, df_processed, df_filtered, date_range,
                   origin_countries, asylum_countries, population_groups,
                   genders, age_ranges, warnings, kpi, charts, export>>

\* ----------------------------------------------------------------- export

\* A date as to_csv writes it; the empty field for a missing date.
FormatDate(d) ==
    CASE d = 20220101 -> "2022-01-01"
      [] d = 20221231 -> "2022-12-31"
      [] d = 20230101 -> "2023-01-01"
      [] OTHER        -> ""

\* A number as to_csv writes it: the empty field for a missing number, a
\* decimal point in a column of float dtype.
FormatNumber(n, float) ==
    IF n = NaN THEN ""
    ELSE IF float THEN ToString(n) \o ".0" ELSE ToString(n)

\* The column is of float dtype: population as read_csv typed it on the
\* whole table, year and month as .dt.year and .dt.month typed them on the
\* frame they were computed on.
IsFloat(f, c, dataset) ==
    IF c = "population" THEN NaN \in Values(dataset, c) ELSE NaN \in Values(f, c)

\* One field of a line of the CSV text.
CsvCell(f, c, v, dataset) ==
    IF c \in f.datetime THEN FormatDate(v)
    ELSE IF c \in {"population", "year", "month"}
         THEN FormatNumber(v, IsFloat(f, c, dataset))
         ELSE v

\* The export of the whole table in place of the view.
ToCsvDataset(f, dataset) ==
    [cols |-> dataset.cols, datetime |-> {},
     rows |-> [i \in 1..Len(dataset.rows) |->
                 [c \in DOMAIN dataset.rows[i] |->
                    CsvCell(dataset, c, dataset.rows[i][c], dataset)]]]

\* df_filtered.to_csv(index=False): the header and one line per row of the
\* frame, in the frame's order; dataset is the table the frame was taken from.
ToCsv(f, dataset) ==
    [cols |-> f.cols, datetime |-> {},
     rows |-> [i \in 1..Len(f.rows) |->
                 [c \in DOMAIN f.rows[i] |-> CsvCell(f, c, f.rows[i][c], dataset)]]]

\* The sheets of the summary workbook, in each order sort_values can give.
Summary(f) ==
    {[pop_by_group  |-> GroupBy(f, <<"population_group">>),
      pop_by_gender |-> GroupBy(f, <<"gender">>),
      pop_by_origin |-> pop_by_origin,
      pop_by_asylum |-> pop_by_asylum] :
        pop_by_origin \in SortValuesDescending(GroupBy(f, <<"origin_location_code">>)),
        pop_by_asylum \in SortValuesDescending(GroupBy(f, <<"asylum_location_code">>))}

\* st.button is True only in the run its click started: at most one of the
\* two export buttons in a run.
Export ==
    /\ pc = "export"
    /\ \E clicked \in {"none", "csv", "summary"} :
         \E summary \in IF clicked = "summary"
                        THEN Summary(heap[df_filtered]) ELSE {<<>>} :
           export' = [clicked |-> clicked,
                      csv     |-> IF clicked = "csv"
                                  THEN ToCsv(heap[df_filtered], heap[df_processed])
                                  ELSE NoFrame,
                      summary |-> summary]
    /\ pc' = "done"
    /\ outcome' = "rendered"
    /\ UNCHANGED <<source, reran, heap, df, df_processed, df_filtered, date_range,
                   origin_countries, asylum_countries, population_groups,
                   genders, age_ranges, error, warnings, kpi, charts, insights>>

\* ------------------------------------------------------------------ rerun

\* A user interaction runs the script again from its first line: the names
\* of the last run are gone, the value st.cache_data keeps stays.
Rerun ==
    /\ pc \in {"stopped", "done"}
    /\ heap' = [o \in Objects |-> IF o = "cache" THEN heap[o] ELSE NoFrame]
    /\ df' = Unbound
    /\ df_processed' = Unbound
    /\ df_filtered' = Unbound
    /\ date_range' = <<>>
    /\ origin_countries' = {}
    /\ asylum_countries' = {}
    /\ population_groups' = {}
    /\ genders' = {}
    /\ age_ranges' = {}
    /\ pc' = "load"
    /\ outcome' = ""
    /\ error' = ""
    /\ warnings' = {}
    /\ kpi' = NoKpi
    /\ charts' = <<>>
    /\ insights' = NoInsights
    /\ export' = NoExport
    /\ reran' = TRUE
    /\ UNCHANGED source

Next ==
    \/ Load
    \/ Preprocess
    \/ DateFilter
    \/ Widgets
    \/ ApplyFilters
    \/ EmptyCheck
    \/ KeyMetrics
    \/ Tab1
    \/ Tab2
    \/ Tab3
    \/ Tab4
    \/ KeyInsights
    \/ Export
    \/ Rerun

\* --------------------------------------------------------- specifications

\* The rows of the uploaded tables: two ordinary rows that differ in every
\* filter dimension, and a row whose population cell is the text N/A and
\* whose start date is missing.
Pool ==
    {Row("AFG", "True",  "PAK", "True",  "REF", "m", "0-4", "10",  "1/1/2022", "12/31/2022"),
     Row("SYR", "False", "TUR", "False", "RET", "f", "all", "20",  "1/1/2022", "1/1/2022"),
     Row("SYR", "True",  "PAK", "True",  "REF", "m", "0-4", "N/A", NA,         "12/31/2022")}

Init ==
    /\ source \in Sources(Pool, {{}})
    /\ FreshRun([o \in Objects |-> NoFrame])

Spec == Init /\ [][Next]_vars

\* Uploaded tables that lack one column, next to complete ones.
SchemaPool ==
    {Row("AFG", "True",  "PAK", "True",  "REF", "m", "0-4", "10", "1/1/2022", "12/31/2022"),
     Row("SYR", "False", "TUR", "False", "RET", "f", "all", "20", "1/1/2022", "1/1/2022")}

MissingColumns ==
    {{}, {"reference_period_start"}, {"reference_period_end"}, {"min_age"},
     {"population"}, {"gender"}}

InitSchema ==
    /\ source \in Sources(SchemaPool, MissingColumns)
    /\ FreshRun([o \in Objects |-> NoFrame])

SpecSchema == InitSchema /\ [][Next]_vars

\* Uploaded tables whose origin, asylum and flow sums tie: two rows of equal
\* population whose codes come in either order in the file.
TiePool ==
    {Row("SYR", "True",  "TUR", "False", "REF", "m", "0-4", "10", "1/1/2022", "12/31/2022"),
     Row("AFG", "True",  "PAK", "True",  "REF", "f", "all", "10", "1/1/2022", "12/31/2022"),
     Row("AFG", "False", "TUR", "False", "RET", "f", "all", "5",  "1/1/2022", "12/31/2022")}

InitTies ==
    /\ source \in Sources(TiePool, {{}})
    /\ FreshRun([o \in Objects |-> NoFrame])

SpecTies == InitTies /\ [][Next]_vars

\* Uploaded tables with a date cell that is neither missing nor a date.
DatePool ==
    {Row("AFG", "True",  "PAK", "True",  "REF", "m", "0-4", "10", "1/1/2022", "12/31/2022"),
     Row("SYR", "False", "TUR", "False", "RET", "f", "all", "20", "1/1/2022", "unknown"),
     Row("AFG", "True",  "TUR", "False", "REF", "f", "all", "5",  "unknown",  "1/1/2023")}

InitDates ==
    /\ source \in Sources(DatePool, {{}})
    /\ FreshRun([o \in Objects |-> NoFrame])

SpecDates == InitDates /\ [][Next]_vars

\* An uploaded table of three records: group A male 10, group A female 20,
\* group B male 5, alike in every other column.
ScenarioFile ==
    [status |-> "ok", cols |-> AllColumns,
     rows |-> <<
       Row("AFG", "True", "PAK", "True", "A", "Male",   "all", "10", "1/1/2022", "12/31/2022"),
       Row("AFG", "True", "PAK", "True", "A", "Female", "all", "20", "1/1/2022", "12/31/2022"),
       Row("AFG", "True", "PAK", "True", "B", "Male",   "all", "5",  "1/1/2022", "12/31/2022") >>]

InitScenario ==
    /\ source = [upload_option |-> "Upload CSV file", uploaded_file |-> ScenarioFile]
    /\ FreshRun([o \in Objects |-> NoFrame])

SpecScenario == InitScenario /\ [][Next]_vars

\* Uploaded tables with the age ranges of the sample data and a five-year
\* band next to them; one row has no origin_has_hrp cell.
AgePool ==
    {Row("AFG", "True",  "PAK", "True",  "REF", "m", "0-4",   "10", "1/1/2022", "12/31/2022"),
     Row("SYR", "False", "TUR", "False", "REF", "f", "40-44", "20", "1/1/2022", "12/31/2022"),
     Row("AFG", "True",  "TUR", "False", "RET", "f", "60+",   "5",  "1/1/2022", "12/31/2022"),
     Row("SYR", NA,      "PAK", "True",  "REF", "m", "all",   "20", "1/1/2022", "12/31/2022")}

InitAges ==
    /\ source \in Sources(AgePool, {{}})
    /\ FreshRun([o \in Objects |-> NoFrame])

SpecAges == InitAges /\ [][Next]_vars

\* ----------------------------------------------------------------- claims

\* The normalized Dataset of the source, computed afresh from the source.
SourceFrame ==
    IF source.upload_option = "Use sample data" THEN SampleData
    ELSE ReadCsv(source.uploaded_file)

FreshDataset == ConvertDates(SourceFrame).frame

\* The five selections of the run, in the order of Dimensions.
Selections ==
    <<origin_countries, asylum_countries, population_groups, genders, age_ranges>>

\* The row satisfies the date predicate of a complete date range: it has a
\* start day on or after the range start and an end day on or before the
\* range end.
SatisfiesDates(r) ==
    /\ r["reference_period_start"] \in {d \in Days : d >= date_range[1]}
    /\ r["reference_period_end"] \in {d \in Days : d <= date_range[2]}

\* The row satisfies the membership predicate of each dimension in dims.
SatisfiesSelections(r, dims) ==
    \A i \in dims : r[Dimensions[i]] \in Selections[i]

\* The dimensions with a non-empty selection.
Active == {i \in 1..Len(Dimensions) : Selections[i] # {}}

Satisfies(r) == SatisfiesDates(r) /\ SatisfiesSelections(r, Active)

\* The script has just left the 'Apply filters' block.
Filtered == pc = "check"

View == heap[df_filtered]

Dataset == heap[df_processed]

\* C1: with a complete date range, a record of the Dataset is in the
\* Filtered View if and only if it satisfies every active predicate (the
\* inclusive date bounds and, for each dimension with a non-empty selection,
\* membership in the selected set); every satisfying record is in the view
\* as often as in the Dataset.
C1_ViewIsExactlyTheMatchingRecords ==
    (Filtered /\ Len(date_range) = 2) =>
        /\ \A r \in Range(Dataset.rows) : r \in Range(View.rows) <=> Satisfies(r)
        /\ Range(View.rows) \subseteq Range(Dataset.rows)
        /\ Len(View.rows) =
             Cardinality({i \in 1..Len(Dataset.rows) : Satisfies(Dataset.rows[i])})

\* A complete date range and two narrowing selections keep some records of
\* the Dataset and drop others.
C1_Witness ==
    /\ Filtered
    /\ Len(date_range) = 2
    /\ origin_countries # {}
    /\ genders # {}
    /\ Len(View.rows) > 0
    /\ Len(View.rows) < Len(Dataset.rows)
    /\ \E r \in Range(Dataset.rows) :
         SatisfiesDates(r) /\ ~SatisfiesSelections(r, Active)

\* The rows the date filter keeps: those in a complete range, all rows
\* without one.
DateKept ==
    IF Len(date_range) = 2
    THEN SelectSeq(Dataset.rows, LAMBDA r : SatisfiesDates(r))
    ELSE Dataset.rows

\* C2: a dimension with an empty selection imposes no constraint: whenever
\* some selection is empty, the Filtered View is, record for record and in
\* order, what the non-empty selections alone select.
C2_EmptySelectionIsNoConstraint ==
    (Filtered /\ Active # 1..Len(Dimensions)) =>
        View.rows = SelectSeq(DateKept, LAMBDA r : SatisfiesSelections(r, Active))

\* No gender selected and one population group out of several: the view is
\* the rows of that group.
C2_Witness ==
    /\ Filtered
    /\ genders = {}
    /\ Cardinality(population_groups) = 1
    /\ Cardinality(Values(Dataset, "population_group")) > 1
    /\ Cardinality(Values(View, "gender")) > 1
    /\ Len(View.rows) < Len(DateKept)

\* C3: with the five selections empty and no date constraint, the Filtered
\* View holds the records of the normalized Dataset, each once, in order.
C3_UnconstrainedViewIsTheDataset ==
    (Filtered /\ Active = {} /\ Len(date_range) # 2) =>
        /\ View.rows = FreshDataset.rows
        /\ View.cols = FreshDataset.cols

\* Every multiselect cleared and the end of the date range not picked yet,
\* on a table of several records with values to select from.
C3_Witness ==
    /\ Filtered
    /\ Active = {}
    /\ Len(date_range) = 1
    /\ Len(View.rows) > 1
    /\ Cardinality(Values(View, "origin_location_code")) > 1

\* The steps after the empty check.
AfterCheck ==
    {"metrics", "tab1", "tab2", "tab3", "tab4", "insights", "export", "done"}

RECURSIVE SumOf(_)
SumOf(groups) ==
    IF groups = <<>> THEN 0 ELSE Head(groups).population + SumOf(Tail(groups))

\* C4: conservation: the per-group population sums of every grouping the
\* dashboard renders, added over the groups, equal the Total Population KPI,
\* also when a record has no value in the grouping column.
C4_GroupSumsAddUpToTotal ==
    /\ pc \in {"tab4", "insights", "export", "done"} =>
         /\ \A name \in {"pop_by_group", "origin_counts", "asylum_counts",
                         "migration_flows", "origin_hrp", "asylum_hrp"} :
              SumOf(charts[name]) = kpi.total
         /\ charts["pop_by_gender"] # <<>> =>
              SumOf(charts["pop_by_gender"]) = kpi.total
    /\ export.clicked = "summary" =>
         \A sheet \in DOMAIN export.summary :
           SumOf(export.summary[sheet]) = kpi.total

\* C5: a record whose population is missing or unparseable is in no
\* Dataset, no Filtered View and no CSV export.
C5_NoRecordWithoutPopulation ==
    /\ \A name \in {df_processed, df_filtered} \ {Unbound} :
         "population" \in heap[name].cols =>
           \A i \in 1..Len(heap[name].rows) : heap[name].rows[i]["population"] # NaN
    /\ \A i \in 1..Len(export.csv.rows) : export.csv.rows[i]["population"] # NaN

\* The columns a source must have.
Required ==
    {"reference_period_start", "reference_period_end", "min_age", "max_age",
     "population"} \cup Range(Dimensions)

Lacking ==
    IF source.upload_option = "Upload CSV file" /\ source.uploaded_file.status = "ok"
    THEN Required \ source.uploaded_file.cols
    ELSE {}

\* C6: a source that lacks a required column fails the load: the run stops
\* with an error that names the missing column before any date filter,
\* Filtered View, KPI, aggregation or export.
C6_MissingColumnFailsTheLoad ==
    Lacking # {} =>
        \/ pc \in {"load", "preprocess"}
        \/ /\ pc = "stopped"
           /\ outcome = "exception"
           /\ error \in Lacking
           /\ df_filtered = Unbound

\* C7: a view without records ends the run at the empty check, with the
\* warning and without an error; no key metric, tab, insight or export step
\* runs on an empty view.
C7_EmptyViewStopsWithWarning ==
    /\ [](pc \in AfterCheck => Len(View.rows) > 0)
    /\ [](outcome = "empty" =>
            /\ pc = "stopped"
            /\ error = ""
            /\ EmptyWarning \in warnings
            /\ kpi = NoKpi
            /\ charts = <<>>
            /\ insights = NoInsights
            /\ export = NoExport)
    /\ [][(pc = "check" /\ Len(View.rows) = 0) =>
            (pc' = "stopped" /\ outcome' = "empty")]_vars

\* A narrowed selection on a table with records matches none of them and
\* the run has stopped with the warning.
C7_Witness ==
    /\ outcome = "empty"
    /\ Len(Dataset.rows) > 0
    /\ Active # {}
    /\ Len(View.rows) = 0

\* The rows of the freshly normalized Dataset the current date range and
\* selections select.
ExpectedRows ==
    SelectSeq(FreshDataset.rows,
              LAMBDA r : /\ Len(date_range) = 2 => SatisfiesDates(r)
                         /\ SatisfiesSelections(r, Active))

\* C8: in every run of the session, the first or a later one, the Filtered
\* View is the filter of the freshly normalized Dataset by the selection of
\* this run: same records, same order, same columns, whatever earlier runs
\* computed.
C8_ViewIsFilterOfFreshDataset ==
    Filtered =>
        /\ Dataset = FreshDataset
        /\ View = [FreshDataset EXCEPT !.rows = ExpectedRows]

\* A later run of the session on the cached sample data, with records in
\* its view.
C8_Witness ==
    /\ Filtered
    /\ reran
    /\ source.upload_option = "Use sample data"
    /\ heap["cache"] # NoFrame
    /\ Len(View.rows) > 0
    /\ Len(View.rows) < Len(Dataset.rows)

\* C9: once preprocessing is done the normalized Dataset is not mutated:
\* df_processed has the records, values and columns of the freshly
\* normalized Dataset until the run ends.
C9_DatasetNeverMutated ==
    df_processed # Unbound => Dataset = FreshDataset

\* C10: no step after load adds a field to the Filtered View: the view and
\* the CSV export have exactly the columns of the normalized Dataset.
C10_NoFieldAddedAfterLoad ==
    /\ df_filtered # Unbound => View.cols = FreshDataset.cols
    /\ export.clicked = "csv" => export.csv.cols = FreshDataset.cols

\* The position in the Filtered View of the first record of a category.
FirstAppearance(key, by) ==
    Min({i \in 1..Len(View.rows) : RowKey(View.rows[i], by) = key})

\* A top-N list in non-increasing order of population, the categories of
\* equal population in the order of their first appearance in the view.
StableDescending(list, by) ==
    \A i, j \in 1..Len(list) :
        i < j =>
            \/ list[i].population > list[j].population
            \/ /\ list[i].population = list[j].population
               /\ FirstAppearance(list[i].key, by) < FirstAppearance(list[j].key, by)

AfterTab3 == pc \in {"tab4", "insights", "export", "done"}

\* C11: the top-10 origin, top-10 asylum and top-15 flow lists are in
\* non-increasing order of summed population, and categories of equal sums
\* come in the order of their first appearance in the Filtered View.
C11_TopNTiesInViewOrder ==
    AfterTab3 =>
        /\ StableDescending(charts.origin_counts, <<"origin_location_code">>)
        /\ StableDescending(charts.asylum_counts, <<"asylum_location_code">>)
        /\ StableDescending(charts.migration_flows,
                            <<"origin_location_code", "asylum_location_code">>)


DateColumns == {"reference_period_start", "reference_period_end"}

\* A record of the Dataset whose two dates parsed.
HasParsedRecord ==
    \E i \in 1..Len(SourceFrame.rows) :
        \A c \in DateColumns : ToDatetime(SourceFrame.rows[i][c]) # NaT

\* C12: an unparseable date cell makes only that value missing: both date
\* columns are datetime-typed, every cell holds its parsed date or the
\* missing date, no conversion warning is shown, and the date filter is not
\* given up while some record has both dates.
C12_UnparseableDateOnlyThatValueMissing ==
    df_processed # Unbound =>
        /\ DateColumns \subseteq Dataset.datetime
        /\ \A i \in 1..Len(Dataset.rows) : \A c \in DateColumns :
              Dataset.rows[i][c] = ToDatetime(SourceFrame.rows[i][c])
        /\ ConvertWarning \notin warnings
        /\ HasParsedRecord => DateWarning \notin warnings


\* The CSV lines of the records the filters of this run select from the
\* freshly normalized Dataset, in the Dataset's order, on its columns.
ExpectedCsvLines ==
    LET fresh    == FreshDataset
        expected == ExpectedRows
    IN  [i \in 1..Len(expected) |->
            [c \in DOMAIN expected[i] |-> CsvCell(fresh, c, expected[i][c], fresh)]]

\* The lines of the exported CSV, on the columns of the Dataset.
CsvLines ==
    [i \in 1..Len(export.csv.rows) |->
        [c \in DOMAIN export.csv.rows[i] \cap ReadColumns |-> export.csv.rows[i][c]]]

\* C13: the CSV of 'Export Filtered Data to CSV' holds exactly the records
\* that pass the filters in force in the run of the click, each once, in
\* view order, and no other record.
C13_CsvExportIsTheView ==
    export.clicked = "csv" =>
        /\ ExpectedCsvLines = CsvLines
        /\ Len(export.csv.rows) = Len(View.rows)

\* A CSV export of a view that holds some records of the Dataset and not
\* others, one of them without a population count.
C13_Witness ==
    /\ export.clicked = "csv"
    /\ Len(export.csv.rows) > 0
    /\ Len(export.csv.rows) < Len(Dataset.rows)
    /\ \E i \in 1..Len(export.csv.rows) : export.csv.rows[i]["population"] = ""


\* The date range keeps every record of the scenario: it is incomplete or
\* spans the year of the three records.
WholePeriod == Len(date_range) = 2 => date_range = <<20220101, 20221231>>

\* The selection of a dimension other than the population group leaves every
\* record in: it is empty or holds every value.
OthersUnconstrained ==
    /\ WholePeriod
    /\ \A i \in {1, 2, 4, 5} :
          Selections[i] \in {{}, Values(FreshDataset, Dimensions[i])}

\* An aggregation as a mapping from category to sum.
AsMapping(groups) == {<<groups[n].key[1], groups[n].population>> : n \in 1..Len(groups)}

AfterTab1 == pc \in {"tab2", "tab3", "tab4", "insights", "export", "done"}

\* C14: on the three records (A, Male, 10), (A, Female, 20), (B, Male, 5),
\* the filter group = A keeps exactly the first two records, the sums by
\* gender over that view are Male 10 and Female 20, and the sums by group
\* over the unfiltered records are A 30 and B 5.
C14_ThreeRecordScenario ==
    /\ (Filtered /\ OthersUnconstrained /\ population_groups = {"A"}) =>
          View.rows = SubSeq(FreshDataset.rows, 1, 2)
    /\ (AfterTab1 /\ OthersUnconstrained /\ population_groups = {"A"}) =>
          /\ Len(charts.pop_by_gender) = 2
          /\ AsMapping(charts.pop_by_gender) = {<<"Male", 10>>, <<"Female", 20>>}
    /\ (AfterTab1 /\ OthersUnconstrained /\ population_groups \in {{}, {"A", "B"}}) =>
          /\ Len(charts.pop_by_group) = 2
          /\ AsMapping(charts.pop_by_group) = {<<"A", 30>>, <<"B", 5>>}

\* The view of group A with its sums by gender rendered.
C14_Witness ==
    /\ pc = "tab2"
    /\ population_groups = {"A"}
    /\ OthersUnconstrained
    /\ Len(View.rows) = 2
    /\ Len(Dataset.rows) = 3
    /\ Len(charts.pop_by_gender) = 2


\* The freshly normalized Dataset after the date filter of this run.
DateFiltered ==
    [FreshDataset EXCEPT !.rows =
        SelectSeq(@, LAMBDA r : Len(date_range) = 2 => SatisfiesDates(r))]

\* The first three codes in sorted order of more than three codes, every
\* code of three or fewer.
FirstThreeOrAll(S) ==
    IF Cardinality(S) > 3
    THEN {c \in S : Cardinality({d \in S : Rank(d) < Rank(c)}) < 3}
    ELSE S

\* The user has left every multiselect at its default.
AllDefault ==
    LET dated == DateFiltered
    IN  \A i \in 1..Len(Dimensions) : Selections[i] = Default(dated, Dimensions[i])

\* C15: with the widgets at their defaults, the origin and the asylum
\* filter select the first three codes in sorted order of more than three
\* distinct codes of the date-filtered data and every code of three or
\* fewer, the other three filters select every value, and the Filtered View
\* holds the records whose origin and asylum codes are among the selected.
C15_DefaultCountrySelections ==
    (pc \in {"filter", "check"} /\ AllDefault) =>
        LET dated   == DateFiltered
            origins == FirstThreeOrAll(Values(dated, "origin_location_code"))
            asylums == FirstThreeOrAll(Values(dated, "asylum_location_code"))
        IN  /\ origin_countries = origins
            /\ asylum_countries = asylums
            /\ population_groups = Values(dated, "population_group")
            /\ genders = Values(dated, "gender")
            /\ age_ranges = Values(dated, "age_range")
            /\ pc = "check" =>
                  View.rows =
                    SelectSeq(dated.rows,
                              LAMBDA r : /\ r["origin_location_code"] \in origins
                                         /\ r["asylum_location_code"] \in asylums)

\* The first run on the sample data, eight asylum codes and three origin
\* codes, the widgets untouched: the view holds three of the eight records.
C15_Witness ==
    /\ pc = "check"
    /\ ~reran
    /\ AllDefault
    /\ date_range = <<20220101, 20221231>>
    /\ Cardinality(Values(DateFiltered, "asylum_location_code")) = 8
    /\ Cardinality(Values(DateFiltered, "origin_location_code")) = 3
    /\ asylum_countries = {"ETH", "IRN", "JOR"}
    /\ Len(View.rows) = 3


\* C16: whenever Key Insights computes a percentage of the total population
\* or a gender ratio (male over female when males exceed females, female
\* over male when females exceed males), the denominator is strictly
\* positive, also when a gender is present with a population sum of zero.
C16_DenominatorsPositive ==
    insights.shown =>
        /\ \A d \in insights.percent_of : d > 0
        /\ insights.ratio.computed => insights.ratio.denominator > 0


\* The summed population of the records of the view whose age range is not 'all'.
NotAllPopulation ==
    SumPopulation(SelectSeq(View.rows, LAMBDA r : r["age_range"] # "all"))

\* C17: in Key Insights only the labels '0-4', '5-11' and '12-17' count as
\* children, only '18-59' as working age and only '60+' as elderly; no label
\* is in two buckets, 'all' is in none, and the three bucket totals together
\* do not exceed the population of the records whose age range is not 'all'.
C17_AgeBucketsByExactLabel ==
    (insights.shown /\ insights.ages.computed) =>
        LET ages == insights.ages
        IN  /\ ages.children_ranges \subseteq {"0-4", "5-11", "12-17"}
            /\ ages.working_age_ranges \subseteq {"18-59"}
            /\ ages.elderly_ranges \subseteq {"60+"}
            /\ ages.children_ranges \cap ages.working_age_ranges = {}
            /\ ages.children_ranges \cap ages.elderly_ranges = {}
            /\ ages.working_age_ranges \cap ages.elderly_ranges = {}
            /\ "all" \notin ages.children_ranges \cup ages.working_age_ranges
                              \cup ages.elderly_ranges
            /\ ages.children_population + ages.working_age_population
                  + ages.elderly_population <= NotAllPopulation


\* No date constraint is in force: the date input holds fewer than two
\* dates, or it was never shown because the bounds failed.
NoDateConstraint == Len(date_range) < 2

\* C18: with fewer than two dates in the date input, or date bounds that
\* cannot be computed or compared, no date constraint is applied: the
\* categorical filters run on the whole normalized Dataset, and the date
\* step does not end the run.
C18_NoDateConstraintWhenRangeIncomplete ==
    /\ []((pc \in {"widgets", "filter"} /\ NoDateConstraint) =>
            (df_filtered = df_processed /\ View = FreshDataset))
    /\ []((Filtered /\ NoDateConstraint) =>
            View.rows = SelectSeq(FreshDataset.rows,
                                  LAMBDA r : SatisfiesSelections(r, Active)))
    /\ [][pc = "date" => (pc' = "widgets" /\ outcome' = "")]_vars

\* The date bounds failed on a table with an unparseable date, and a
\* selection narrows the whole table.
C18_Witness ==
    /\ Filtered
    /\ DateWarning \in warnings
    /\ date_range = <<>>
    /\ Len(View.rows) > 0
    /\ Len(View.rows) < Len(Dataset.rows)


====
